---- MODULE Spec2Model ----
(***************************************************************************)
(* Model of the LINE webhook relay in main.py: POST /webhook verifies the  *)
(* X-Line-Signature of the body, dispatches every text message event to    *)
(* handle_message, which asks the Dify API (query_dify) and replies on the  *)
(* event's reply token.                                                     *)
(*                                                                          *)
(* One behaviour is the handling of one inbound request.  The request, the  *)
(* answers of the Dify API and the outcomes of the LINE reply API are the   *)
(* inputs; they are drawn from small sets.                                  *)
(***************************************************************************)
EXTENDS Integers, Sequences, FiniteSets, TLC

\* ---------------------------------------------------------------- bounds
\* Largest number of events in one webhook envelope.
MaxEvents == 2

\* ---------------------------------------------------------------- values
\* Python values that flow through dify_response: a str or None.
Str(s) == [t |-> "str", v |-> s]
None == [t |-> "NoneType", v |-> ""]

\* The fixed user-facing texts of main.py (translated).
FormatFallback == Str("Sorry, the response could not be obtained.")
TimeoutFallback == Str("Sorry, the response is taking too long. Please retry later.")
HTTPErrorFallback == Str("Sorry, an error occurred in the AI service.")
NetworkFallback == Str("Sorry, a communication error occurred.")
UnexpectedFallback == Str("Sorry, an unexpected error occurred.")
SystemErrorText == Str("Sorry, a system error occurred. Please retry later.")

\* The fallback texts query_dify can return.
DifyFallbacks ==
  {FormatFallback, TimeoutFallback, HTTPErrorFallback, NetworkFallback, UnexpectedFallback}

\* ------------------------------------------------------------ exceptions
\* The classes an exception is an instance of (its own class and its bases).
Bases(exc) ==
  CASE exc = "ConnectTimeout" ->
         {"ConnectTimeout", "ConnectionError", "Timeout", "RequestException", "Exception"}
    [] exc = "ReadTimeout" -> {"ReadTimeout", "Timeout", "RequestException", "Exception"}
    [] exc = "ConnectionError" -> {"ConnectionError", "RequestException", "Exception"}
    [] exc = "HTTPError" -> {"HTTPError", "RequestException", "Exception"}
    [] exc = "JSONDecodeError" ->
         {"JSONDecodeError", "InvalidJSONError", "RequestException", "ValueError", "Exception"}
    [] exc = "ValueError" -> {"ValueError", "Exception"}
    [] exc = "TypeError" -> {"TypeError", "Exception"}
    [] exc = "ApiException" -> {"ApiException", "Exception"}
    [] exc = "InvalidSignatureError" -> {"InvalidSignatureError", "Exception"}
    [] exc = "UnicodeDecodeError" -> {"UnicodeDecodeError", "ValueError", "Exception"}
    [] OTHER -> {}

IsInstance(exc, cls) == cls \in Bases(exc)

\* ----------------------------------------------------------- inbound side
LINE_CHANNEL_SECRET == "channel-secret"

\* The reply token of the event at position i of an envelope.
ReplyToken(i) == "rt" \o ToString(i)

\* What an event of an envelope can be, apart from its reply token: a text
\* message of a user, or an event of another type (here: a follow event).
EventKinds ==
  { [type |-> "message", message_type |-> "text", user_id |-> "U1", text |-> "Hello"],
    [type |-> "message", message_type |-> "text", user_id |-> "U2", text |-> "Bye"],
    [type |-> "follow", message_type |-> "", user_id |-> "U1", text |-> ""] }

EventLists ==
  UNION { { [i \in 1..n |->
              [type |-> k[i].type, message_type |-> k[i].message_type,
               user_id |-> k[i].user_id, text |-> k[i].text,
               reply_token |-> ReplyToken(i)]] : k \in [1..n -> EventKinds] }
          : n \in 0..MaxEvents }

\* Request bodies: bytes that are not UTF-8, UTF-8 text that is not a webhook
\* envelope, and envelopes.
Bodies ==
  { [utf8 |-> FALSE, envelope |-> FALSE, events |-> <<>>],
    [utf8 |-> TRUE, envelope |-> FALSE, events |-> <<>>] }
  \cup { [utf8 |-> TRUE, envelope |-> TRUE, events |-> es] : es \in EventLists }

\* HMAC-SHA256 of the body under a key, as the value it identifies.
Hmac(key, body) == [key |-> key, body |-> body]

\* A missing X-Line-Signature header is read as ''.
EmptySignature == [key |-> "", body |-> [utf8 |-> TRUE, envelope |-> FALSE, events |-> <<>>]]

Signatures(body) ==
  { Hmac(LINE_CHANNEL_SECRET, body), Hmac("other-secret", body), EmptySignature }

\* ------------------------------------------------------------- AI gateway
\* Variant of DifyPayload with the two arguments exchanged.
DifyPayload_Swapped(user_message, user_id) ==
  [inputs |-> <<>>, query |-> user_id, response_mode |-> "blocking", user |-> user_message]

\* The JSON body query_dify posts to {DIFY_API_BASE_URL}/chat-messages.
DifyPayload(user_message, user_id) ==
  [inputs |-> <<>>, query |-> user_message, response_mode |-> "blocking", user |-> user_id]

\* The texts the Dify API produces for a request: they depend on the query and
\* on the user the request names.
UpstreamAnswer(payload) == "answer to " \o payload.query \o " for " \o payload.user
UpstreamMessage(payload) == "message on " \o payload.query \o " for " \o payload.user

\* The JSON objects a response body can hold (only the fields query_dify reads).
JsonObjects(payload) ==
  LET A == UpstreamAnswer(payload)
      M == UpstreamMessage(payload)
  IN { <<>>,
       [answer |-> Str(A)], [answer |-> Str("")], [answer |-> None],
       [message |-> Str(M)], [message |-> Str("")], [message |-> None],
       [answer |-> Str(A), message |-> Str(M)] }

\* Response bodies: a JSON object, a JSON array (of strings), the JSON value null, or text
\* that is not JSON (response.json() then raises json_error: requests'
\* JSONDecodeError, or a plain ValueError with older versions of requests).
ResponseBodies(payload) ==
  { [kind |-> "object", data |-> d, json_error |-> "none"] : d \in JsonObjects(payload) }
  \cup { [kind |-> "array", data |-> <<>>, json_error |-> "none"],
         [kind |-> "array", data |-> <<"answer">>, json_error |-> "none"],
         [kind |-> "null", data |-> <<>>, json_error |-> "none"],
         [kind |-> "invalid", data |-> <<>>, json_error |-> "JSONDecodeError"],
         [kind |-> "invalid", data |-> <<>>, json_error |-> "ValueError"] }

NoBody == [kind |-> "invalid", data |-> <<>>, json_error |-> "JSONDecodeError"]

\* Everything requests.post(...) can do: raise, or return a response.
Upstreams(payload) ==
  { [post |-> e, status |-> 0, body |-> NoBody]
      : e \in {"ConnectTimeout", "ReadTimeout", "ConnectionError"} }
  \cup { [post |-> "ok", status |-> 200, body |-> b] : b \in ResponseBodies(payload) }
  \cup { [post |-> "ok", status |-> 201,
          body |-> [kind |-> "object", data |-> [answer |-> Str(UpstreamAnswer(payload))],
                    json_error |-> "none"]] }
  \cup { [post |-> "ok", status |-> st, body |-> b]
           : st \in {404, 500},
             b \in { [kind |-> "object", data |-> [answer |-> Str(UpstreamAnswer(payload))],
                      json_error |-> "none"],
                     [kind |-> "object", data |-> [message |-> Str(UpstreamMessage(payload))],
                      json_error |-> "none"],
                     NoBody } }

\* An outcome of a call: a returned value or a raised exception.
Return(v) == [exc |-> "none", ret |-> v]
Raise(e) == [exc |-> e, ret |-> None]

\* response.raise_for_status(): HTTPError for a 4xx or 5xx status.
RaisesForStatus(status) == 400 <= status /\ status < 600

\* key in data, for the parsed body data: a key of a dict, an element of a list.
Contains(body, key) ==
  IF body.kind = "object" THEN key \in DOMAIN body.data
  ELSE \E i \in DOMAIN body.data : body.data[i] = key

\* data[key]: the value of a dict; a list has no str index.
Subscript(body, key) ==
  IF body.kind = "object" THEN Return(body.data[key]) ELSE Raise("TypeError")

\* Variant of ExtractAnswer that looks for message before answer.
ExtractAnswer_MessageFirst(body) ==
  IF body.kind = "null" THEN Raise("TypeError")
  ELSE IF Contains(body, "message") THEN Subscript(body, "message")
  ELSE IF Contains(body, "answer") THEN Subscript(body, "answer")
  ELSE Return(FormatFallback)

\* The extraction of the answer from the parsed body (None is no container).
ExtractAnswer(body) ==
  IF body.kind = "null" THEN Raise("TypeError")
  ELSE IF Contains(body, "answer") THEN Subscript(body, "answer")
  ELSE IF Contains(body, "message") THEN Subscript(body, "message")
  ELSE Return(FormatFallback)

\* The try block of query_dify.
QueryDifyTry(up) ==
  IF up.post # "ok" THEN Raise(up.post)
  ELSE IF RaisesForStatus(up.status) THEN Raise("HTTPError")
  ELSE IF up.body.kind = "invalid" THEN Raise(up.body.json_error)
  ELSE ExtractAnswer(up.body)

\* Variant of DifyExceptClauses with the base class RequestException first.
DifyExceptClauses_BaseFirst ==
  << [cls |-> "RequestException", ret |-> NetworkFallback],
     [cls |-> "Timeout", ret |-> TimeoutFallback],
     [cls |-> "HTTPError", ret |-> HTTPErrorFallback],
     [cls |-> "Exception", ret |-> UnexpectedFallback] >>

\* The except clauses of query_dify, in the order of the source.
DifyExceptClauses ==
  << [cls |-> "Timeout", ret |-> TimeoutFallback],
     [cls |-> "HTTPError", ret |-> HTTPErrorFallback],
     [cls |-> "RequestException", ret |-> NetworkFallback],
     [cls |-> "Exception", ret |-> UnexpectedFallback] >>

\* The first clause that handles exc decides; with none the exception escapes.
RECURSIVE HandleBy(_, _, _)
HandleBy(clauses, exc, i) ==
  IF i > Len(clauses) THEN Raise(exc)
  ELSE IF IsInstance(exc, clauses[i].cls) THEN Return(clauses[i].ret)
  ELSE HandleBy(clauses, exc, i + 1)

\* query_dify(user_message, user_id), given what the Dify API does with the
\* request.
query_dify(up) ==
  LET r == QueryDifyTry(up)
  IN IF r.exc = "none" THEN r ELSE HandleBy(DifyExceptClauses, r.exc, 1)

\* ------------------------------------------------------------------ state
VARIABLES
  request,        \* the inbound POST /webhook: its body and X-Line-Signature
  pc,             \* where the handling of the request stands
  response,       \* the HTTP response, status 0 while there is none
  idx,            \* position of the event handler.handle is at
  dify_response,  \* handle_message's local dify_response
  last_call,      \* the latest call of query_dify: payload, upstream, outcome
  aiCalls,        \* every call of the Dify API made, in order
  replies,        \* every call of the LINE reply API made, in order
  raised          \* events whose handle_message try block raised

vars == <<request, pc, response, idx, dify_response, last_call, aiCalls, replies, raised>>

NoResponse == [status |-> 0, content |-> ""]
NoCall == [payload |-> DifyPayload("", ""), up |-> [post |-> "none", status |-> 0, body |-> NoBody],
           out |-> Return(None)]

events == request.body.events

Init ==
  /\ \E b \in Bodies : \E s \in Signatures(b) : request = [body |-> b, signature |-> s]
  /\ pc = "start"
  /\ response = NoResponse
  /\ idx = 0
  /\ dify_response = None
  /\ last_call = NoCall
  /\ aiCalls = <<>>
  /\ replies = <<>>
  /\ raised = {}

\* ---------------------------------------------------------------- webhook
\* body.decode('utf-8'): strict decoding, UnicodeDecodeError on other bytes.
DecodeRaises(body) == ~body.utf8

\* The signature check of the webhook parser: the header must be the HMAC of
\* the body under the channel secret.
SignatureValid(body, signature) == signature = Hmac(LINE_CHANNEL_SECRET, body)

\* What parsing the request raises inside handler.handle: the signature is
\* validated first, then the body is parsed as an envelope.
ParseRaises(body, signature) ==
  IF ~SignatureValid(body, signature) THEN "InvalidSignatureError"
  ELSE IF ~body.envelope THEN "ValueError"
  ELSE "none"

\* Variant of WebhookResponse without the except Exception clause.
WebhookResponse_NoCatchAll(exc) ==
  IF exc = "none" THEN [status |-> 200, content |-> "{status: ok}"]
  ELSE IF IsInstance(exc, "InvalidSignatureError")
    THEN [status |-> 400, content |-> "Invalid signature"]
  ELSE [status |-> 500, content |-> "Internal Server Error"]

\* The response of webhook() for what handler.handle raised ("none": returned).
WebhookResponse(exc) ==
  IF exc = "none" THEN [status |-> 200, content |-> "{status: ok}"]
  ELSE IF IsInstance(exc, "InvalidSignatureError")
    THEN [status |-> 400, content |-> "Invalid signature"]
  ELSE IF IsInstance(exc, "Exception") THEN [status |-> 200, content |-> "{status: ok}"]
  ELSE [status |-> 500, content |-> "Internal Server Error"]

\* An exception that leaves webhook() itself is answered by the framework.
UnhandledResponse == [status |-> 500, content |-> "Internal Server Error"]

\* Variant of EventsExhausted that returns before the last event.
EventsExhausted_OffByOne(i, n) == i >= n

\* handler.handle has consumed every event of the envelope.
EventsExhausted(i, n) == i > n

\* The events handle_message is registered for.
IsTextMessage(event) == event.type = "message" /\ event.message_type = "text"

\* The except clause of handle_message catches Exception.
HandleMessageCatches(exc) == IsInstance(exc, "Exception")

\* Variant of ErrorReplyCatches without the inner try/except.
ErrorReplyCatches_Nothing(exc) == FALSE

\* The except clause around the reply with the error text catches Exception.
ErrorReplyCatches(exc) == IsInstance(exc, "Exception")

\* dify_response[:100] in the log line after the query.
SliceRaises(value) == IF value.t = "str" THEN "none" ELSE "TypeError"

\* The outcomes of line_bot_api.reply_message.
ReplyOutcomes == {"ok", "ApiException"}

\* Variant of ReplyRaises where the statement raises after a delivered reply.
ReplyRaises_AfterSuccess(o) == IF o = "ok" THEN "ApiException" ELSE o

\* What the reply statement raises for an outcome of the reply API.
ReplyRaises(o) == IF o = "ok" THEN "none" ELSE o

\* webhook(): reads and decodes the body, reads the signature header.
webhook_receive ==
  /\ pc = "start"
  /\ IF DecodeRaises(request.body)
       THEN /\ response' = UnhandledResponse
            /\ pc' = "done"
       ELSE /\ response' = response
            /\ pc' = "handle"
  /\ UNCHANGED <<request, idx, dify_response, last_call, aiCalls, replies, raised>>

\* handler.handle(body_str, signature): signature validation and parsing.
handler_parse ==
  /\ pc = "handle"
  /\ LET exc == ParseRaises(request.body, request.signature)
     IN IF exc = "none"
          THEN /\ pc' = "dispatch"
               /\ idx' = 1
               /\ response' = response
          ELSE /\ pc' = "done"
               /\ idx' = idx
               /\ response' = WebhookResponse(exc)
  /\ UNCHANGED <<request, dify_response, last_call, aiCalls, replies, raised>>

\* handler.handle: the loop over the events; webhook() returns after it.
handler_dispatch ==
  /\ pc = "dispatch"
  /\ IF EventsExhausted(idx, Len(events))
       THEN /\ pc' = "done"
            /\ idx' = idx
            /\ response' = WebhookResponse("none")
       ELSE IF IsTextMessage(events[idx])
         THEN /\ pc' = "hm_query"
              /\ idx' = idx
              /\ response' = response
         ELSE /\ pc' = "dispatch"
              /\ idx' = idx + 1
              /\ response' = response
  /\ UNCHANGED <<request, dify_response, last_call, aiCalls, replies, raised>>

\* An exception raised in the try block of handle_message: caught by its
\* except clause, else it leaves handler.handle and reaches webhook().
TryRaised(exc) ==
  /\ raised' = raised \cup {idx}
  /\ IF HandleMessageCatches(exc)
       THEN /\ pc' = "hm_except"
            /\ idx' = idx
            /\ response' = response
       ELSE /\ pc' = "done"
            /\ idx' = idx
            /\ response' = WebhookResponse(exc)

\* handle_message, up to the log line after the query.
handle_message_query ==
  /\ pc = "hm_query"
  /\ LET event == events[idx]
         payload == DifyPayload(event.text, event.user_id)
     IN \E up \in Upstreams(payload) :
          LET out == query_dify(up)
          IN /\ last_call' = [payload |-> payload, up |-> up, out |-> out]
             /\ aiCalls' = Append(aiCalls, [ev |-> idx, payload |-> payload, out |-> out])
             /\ IF out.exc # "none"
                  THEN /\ dify_response' = dify_response
                       /\ TryRaised(out.exc)
                  ELSE /\ dify_response' = out.ret
                       /\ IF SliceRaises(out.ret) # "none"
                            THEN TryRaised(SliceRaises(out.ret))
                            ELSE /\ pc' = "hm_reply"
                                 /\ UNCHANGED <<idx, response, raised>>
  /\ UNCHANGED <<request, replies>>

\* handle_message: the reply with the answer.
handle_message_reply ==
  /\ pc = "hm_reply"
  /\ \E o \in ReplyOutcomes :
       /\ replies' = Append(replies,
            [ev |-> idx, reply_token |-> events[idx].reply_token,
             text |-> dify_response, outcome |-> o, handler |-> "try"])
       /\ IF ReplyRaises(o) = "none"
            THEN /\ pc' = "dispatch"
                 /\ idx' = idx + 1
                 /\ UNCHANGED <<response, raised>>
            ELSE TryRaised(ReplyRaises(o))
  /\ UNCHANGED <<request, dify_response, last_call, aiCalls>>

\* handle_message: the except clause, which replies with the error text.
handle_message_except ==
  /\ pc = "hm_except"
  /\ \E o \in ReplyOutcomes :
       /\ replies' = Append(replies,
            [ev |-> idx, reply_token |-> events[idx].reply_token,
             text |-> SystemErrorText, outcome |-> o, handler |-> "except"])
       /\ IF ReplyRaises(o) = "none" \/ ErrorReplyCatches(ReplyRaises(o))
            THEN /\ pc' = "dispatch"
                 /\ idx' = idx + 1
                 /\ response' = response
            ELSE /\ pc' = "done"
                 /\ idx' = idx
                 /\ response' = WebhookResponse(ReplyRaises(o))
  /\ UNCHANGED <<request, dify_response, last_call, aiCalls, raised>>

Next ==
  \/ webhook_receive
  \/ handler_parse
  \/ handler_dispatch
  \/ handle_message_query
  \/ handle_message_reply
  \/ handle_message_except

Spec == Init /\ [][Next]_vars

\* ----------------------------------------------------------------- claims
OkResponse == [status |-> 200, content |-> "{status: ok}"]

SignatureMatches == request.signature = Hmac(LINE_CHANNEL_SECRET, request.body)

TextEvents == { i \in DOMAIN events : IsTextMessage(events[i]) }
RepliesOn(token) == { j \in DOMAIN replies : replies[j].reply_token = token }
CallsFor(i) == { j \in DOMAIN aiCalls : aiCalls[j].ev = i }

SuccessStatus(up) == up.post = "ok" /\ 200 <= up.status /\ up.status < 300
HasField(body, key) == body.kind = "object" /\ key \in DOMAIN body.data
ByPriority(body) ==
  IF HasField(body, "answer") THEN body.data["answer"]
  ELSE IF HasField(body, "message") THEN body.data["message"]
  ELSE FormatFallback

\* C1: a request whose signature does not match its body is answered with
\* 400, and no AI call and no reply send is made for it.
C1_MismatchIs400 ==
  (pc = "done" /\ ~SignatureMatches) =>
    (response.status = 400 /\ aiCalls = <<>> /\ replies = <<>>)

\* C2: a request whose signature verification succeeded is answered with
\* 200 {"status":"ok"}, whatever parsing, the AI calls and the reply sends did.
C2_VerifiedIs200 ==
  /\ (response.status # 0 /\ request.body.utf8 /\ SignatureMatches) => response = OkResponse
  /\ (pc = "done" /\ request.body.utf8 /\ SignatureMatches) => response = OkResponse

C2_Witness ==
  /\ pc = "done" /\ SignatureMatches /\ response = OkResponse
  /\ \E j \in DOMAIN replies :
       replies[j].handler = "except" /\ replies[j].outcome = "ApiException"
  /\ \E j \in DOMAIN aiCalls : aiCalls[j].out.ret = TimeoutFallback

\* C3: the reply API is invoked at most once with the reply token of an event.
C3_AtMostOneSendPerToken ==
  \A i \in TextEvents : Cardinality(RepliesOn(events[i].reply_token)) <= 1

\* C4 as stated: for every response with a success status, query_dify returns
\* the answer field if present, else the message field if present, else the
\* 'could not obtain a response' fallback.
C4_PriorityOnEverySuccess ==
  SuccessStatus(last_call.up) => last_call.out = Return(ByPriority(last_call.up.body))

\* C4 amended: the same, for the responses whose body is a JSON object.
C4_PriorityOnJsonObject ==
  (SuccessStatus(last_call.up) /\ last_call.up.body.kind = "object")
    => last_call.out = Return(ByPriority(last_call.up.body))

C4_Witness ==
  /\ SuccessStatus(last_call.up)
  /\ HasField(last_call.up.body, "answer") /\ HasField(last_call.up.body, "message")
  /\ last_call.out.ret = Str(UpstreamAnswer(last_call.payload))
  /\ last_call.out.ret # Str(UpstreamMessage(last_call.payload))

\* C5: no exception leaves query_dify, and a failed call returns the fallback
\* of its class: timeout, HTTP error status (whatever the body), other
\* transport error, other exception.
C5_FallbackPerFailureClass ==
  /\ \A j \in DOMAIN aiCalls : aiCalls[j].out.exc = "none"
  /\ last_call.out.exc = "none"
  /\ last_call.up.post \in {"ConnectTimeout", "ReadTimeout"}
       => last_call.out.ret = TimeoutFallback
  /\ (last_call.up.post = "ok" /\ last_call.up.status >= 400)
       => last_call.out.ret = HTTPErrorFallback
  /\ last_call.up.post = "ConnectionError" => last_call.out.ret = NetworkFallback
  /\ (SuccessStatus(last_call.up) /\ last_call.up.body.kind = "null")
       => last_call.out.ret = UnexpectedFallback

C5_Witness ==
  /\ last_call.up.post = "ConnectTimeout"
  /\ last_call.out = Return(TimeoutFallback)

\* C6: the value query_dify returns is never None and never the empty string.
C6_AnswerNeverEmpty ==
  \A j \in DOMAIN aiCalls :
    /\ aiCalls[j].out.exc = "none"
    /\ aiCalls[j].out.ret # None
    /\ aiCalls[j].out.ret # Str("")

\* C7: when the handling of a validly signed envelope is over, every text
\* event of it has had exactly one AI call and at least one reply send on its
\* own reply token, whatever failed for the other events.
C7_EveryEventProcessed ==
  (pc = "done" /\ SignatureMatches /\ request.body.envelope) =>
    \A i \in TextEvents :
      /\ Cardinality(CallsFor(i)) = 1
      /\ RepliesOn(events[i].reply_token) # {}

C7_Witness ==
  /\ pc = "done" /\ SignatureMatches
  /\ Cardinality(TextEvents) = 2
  /\ \E j \in DOMAIN replies :
       /\ replies[j].ev = 1
       /\ replies[j].handler = "except"
       /\ replies[j].outcome = "ApiException"
  /\ \E j \in DOMAIN replies : replies[j].ev = 2 /\ replies[j].outcome = "ok"

\* C8: a reply sent on the reply token of an event carries the text the AI
\* call for that event's sender and message returned, or a fixed fallback
\* text; an event whose AI call and reply send succeed gets its own answer
\* exactly once.
C8_RepliesNotCrossed ==
  /\ \A j \in DOMAIN replies : \A i \in DOMAIN events :
       events[i].reply_token = replies[j].reply_token =>
         \/ replies[j].text \in (DifyFallbacks \cup {SystemErrorText})
         \/ \E c \in DOMAIN aiCalls :
              /\ aiCalls[c].payload.user = events[i].user_id
              /\ aiCalls[c].payload.query = events[i].text
              /\ aiCalls[c].out.ret = replies[j].text
  /\ pc = "done" =>
       \A i \in TextEvents :
         LET own == Str(UpstreamAnswer([query |-> events[i].text, user |-> events[i].user_id]))
             sent == RepliesOn(events[i].reply_token)
         IN ((\E c \in CallsFor(i) : aiCalls[c].out.ret = own)
              /\ (\E j \in sent : replies[j].handler = "try" /\ replies[j].outcome = "ok"))
              => (Cardinality(sent) = 1 /\ \A j \in sent : replies[j].text = own)

C8_Witness ==
  /\ pc = "done"
  /\ TextEvents = {1, 2}
  /\ events[1].user_id # events[2].user_id
  /\ Len(replies) = 2
  /\ \A i \in {1, 2} :
       /\ replies[i].reply_token = events[i].reply_token
       /\ replies[i].outcome = "ok"
       /\ replies[i].text =
            Str(UpstreamAnswer([query |-> events[i].text, user |-> events[i].user_id]))
  /\ replies[1].text # replies[2].text

\* C9: after a reply send for an event succeeded no further send is made for
\* it, and the send of the error text is made only after an exception was
\* raised in the try block, before or by the first send.
C9_NoSendAfterSuccess ==
  /\ \A j, k \in DOMAIN replies :
       (j < k /\ replies[j].ev = replies[k].ev) => replies[j].outcome # "ok"
  /\ \A k \in DOMAIN replies :
       replies[k].handler = "except" =>
         /\ replies[k].text = SystemErrorText
         /\ replies[k].ev \in raised
         /\ \A j \in DOMAIN replies :
              (j < k /\ replies[j].ev = replies[k].ev) =>
                (replies[j].handler = "try" /\ replies[j].outcome # "ok")
  /\ \A i \in TextEvents :
       Cardinality({ j \in DOMAIN replies : replies[j].ev = i /\ replies[j].outcome = "ok" }) <= 1

C9_Witness ==
  \E j, k \in DOMAIN replies :
    /\ j < k /\ replies[j].ev = replies[k].ev
    /\ replies[j].handler = "try" /\ replies[j].outcome = "ApiException"
    /\ replies[k].handler = "except" /\ replies[k].outcome = "ok"

\* C10: the 200 response of a validly signed request exists only once the
\* processing of every text event of the envelope is over: its AI call is
\* made and its reply sends have ended (the first succeeded, or the send of
\* the error text was made).
C10_AckAfterProcessing ==
  (response.status = 200 /\ request.body.envelope) =>
    /\ pc = "done"
    /\ \A i \in TextEvents :
         /\ CallsFor(i) # {}
         /\ \E j \in DOMAIN replies :
              /\ replies[j].ev = i
              /\ replies[j].outcome = "ok" \/ replies[j].handler = "except"

C10_Witness ==
  /\ response = OkResponse
  /\ Cardinality(TextEvents) = 2
  /\ Len(aiCalls) = 2
  /\ Len(replies) >= 3

====
